---- MODULE Spec2Model ----
(***************************************************************************)
(* A model of src/analysis.py, the invoice dashboard: load_data, the       *)
(* sidebar filters, apply_filters, display_metrics, the top-suppliers and  *)
(* account-distribution tables and the raw-data pager of main.             *)
(*                                                                         *)
(* Amounts are whole cents (100,50 is 10050): every amount text of the     *)
(* model has at most two decimals, so sums are exact.  Dates are the       *)
(* number year*10000 + month*100 + day, which orders as the calendar does. *)
(* Account and supplier names are numbered by their rank in sorted order.  *)
(***************************************************************************)
EXTENDS Integers, Sequences, FiniteSets, TLC

\* ------------------------------------------------------------------ bounds

\* Rows of an input file (Spec).
MaxFileRows == 3
\* Rows of a dataset handed to apply_filters (SpecFilter).
MaxDfRows == 2
\* Suppliers and accounts of a filtered view (SpecAgg).
MaxKeys == 12
\* Rows of a filtered view in the raw-data pager (SpecPage).
MaxTotalRows == 120

\* -------------------------------------------------------- sequence helpers

RECURSIVE SumSeq(_)
\* The sum of a sequence of integers (Series.sum; 0 for the empty series).
SumSeq(s) == IF s = <<>> THEN 0 ELSE Head(s) + SumSeq(Tail(s))

RECURSIVE MapAmount(_)
\* The laskun_summa column of a sequence of rows.
MapAmount(rows) ==
    IF rows = <<>> THEN <<>>
    ELSE <<Head(rows).laskun_summa>> \o MapAmount(Tail(rows))

\* The largest and the smallest of a non-empty set of integers.
SetMax(S) == CHOOSE x \in S : \A y \in S : y <= x
SetMin(S) == CHOOSE x \in S : \A y \in S : x <= y

\* The number of positions of a sequence holding x.
Count(s, x) == Cardinality({i \in 1..Len(s) : s[i] = x})

\* ------------------------------------------------------- parsing the file

Digits == <<"0", "1", "2", "3", "4", "5", "6", "7", "8", "9">>
IsDigit(c) == \E i \in 1..10 : Digits[i] = c
DigitVal(c) == (CHOOSE i \in 1..10 : Digits[i] = c) - 1

\* Series.str.replace(r'\s+', '', regex=True): every whitespace character goes.
StripWhitespace(t) == SelectSeq(t, LAMBDA c : c # " ")

\* Series.str.replace(',', '.', regex=False): every comma becomes a period.
CommaToPeriod(t) == [i \in 1..Len(t) |-> IF t[i] = "," THEN "." ELSE t[i]]

RECURSIVE DigitsValue(_)
\* The number a sequence of digits writes (0 for none).
DigitsValue(t) ==
    IF t = <<>> THEN 0
    ELSE DigitsValue(SubSeq(t, 1, Len(t) - 1)) * 10 + DigitVal(t[Len(t)])

AllDigits(t) == \A i \in 1..Len(t) : IsDigit(t[i])

\* The unsigned part of a float literal: digits, at most one period, and at
\* least one digit in all.
IsUnsignedFloat(t) ==
    LET dots == {i \in 1..Len(t) : t[i] = "."}
    IN  /\ Cardinality(dots) <= 1
        /\ \A i \in 1..Len(t) : IsDigit(t[i]) \/ t[i] = "."
        /\ \E i \in 1..Len(t) : IsDigit(t[i])

\* Whether float() accepts the text: an optional sign, then the unsigned part.
IsFloat(t) ==
    /\ t # <<>>
    /\ IF t[1] \in {"-", "+"} THEN IsUnsignedFloat(Tail(t)) ELSE IsUnsignedFloat(t)

\* The cents of an unsigned float literal with at most two decimals.
UnsignedCents(t) ==
    LET dots == {i \in 1..Len(t) : t[i] = "."}
        dot  == IF dots = {} THEN Len(t) + 1 ELSE CHOOSE i \in dots : TRUE
        whole == SubSeq(t, 1, dot - 1)
        frac  == SubSeq(t, dot + 1, Len(t))
        frac2 == IF Len(frac) = 0 THEN <<"0", "0">>
                 ELSE IF Len(frac) = 1 THEN frac \o <<"0">>
                 ELSE SubSeq(frac, 1, 2)
    IN  DigitsValue(whole) * 100 + DigitsValue(frac2)

\* astype(float) of one cell, in cents.
ToFloat(t) ==
    IF t[1] = "-" THEN 0 - UnsignedCents(Tail(t))
    ELSE IF t[1] = "+" THEN UnsignedCents(Tail(t))
    ELSE UnsignedCents(t)

\* The conversion with the comma deleted instead of replaced by a period.
AmountTextDropComma(t) == SelectSeq(StripWhitespace(t), LAMBDA c : c # ",")

\* load_data's conversion of the amount column, cell by cell.
AmountText(t) == CommaToPeriod(StripWhitespace(t))

\* The fields of a text split at its periods.
RECURSIVE SplitDots(_)
SplitDots(t) ==
    LET dots == {i \in 1..Len(t) : t[i] = "."}
    IN  IF dots = {} THEN <<t>>
        ELSE LET d == SetMin(dots)
             IN  <<SubSeq(t, 1, d - 1)>> \o SplitDots(SubSeq(t, d + 1, Len(t)))

IsLeap(y) == (y % 4 = 0 /\ y % 100 # 0) \/ y % 400 = 0

DaysInMonth(y, m) ==
    IF m = 2 THEN (IF IsLeap(y) THEN 29 ELSE 28)
    ELSE IF m \in {4, 6, 9, 11} THEN 30 ELSE 31

\* Whether the text matches '%d.%m.%Y' and names a day of the calendar.
IsDate(t) ==
    LET f == SplitDots(t)
    IN  /\ Len(f) = 3
        /\ Len(f[1]) \in {1, 2} /\ AllDigits(f[1])
        /\ Len(f[2]) \in {1, 2} /\ AllDigits(f[2])
        /\ Len(f[3]) = 4 /\ AllDigits(f[3])
        /\ DigitsValue(f[2]) \in 1..12
        /\ DigitsValue(f[1]) \in 1..DaysInMonth(DigitsValue(f[3]), DigitsValue(f[2]))

\* pd.to_datetime(text, format='%d.%m.%Y') of one cell.
ToDatetime(t) ==
    LET f == SplitDots(t)
    IN  DigitsValue(f[3]) * 10000 + DigitsValue(f[2]) * 100 + DigitsValue(f[1])

\* datetime(y, m, d).date()
Date(y, m, d) == y * 10000 + m * 100 + d

\* ------------------------------------------------------------- the tables

\* The columns clean_column_names leaves for the standard header.
Columns == {"pvm", "laskun_summa", "tili_nimi", "toimittaja_nimi", "maakoodi"}

\* pd.DataFrame(): no columns, no rows.
EmptyFrame == [columns |-> {}, rows |-> <<>>]

\* column_mapping, from the header lowered and underscored to the new name.
ColumnMapping(name) ==
    CASE name = "toimittajan__nimi" -> "toimittaja_nimi"
      [] name = "laskun_summa_ilman_alv" -> "laskun_summa"
      [] name = "tapaht.pvm" -> "pvm"
      [] name = "tilin_nimi" -> "tili_nimi"
      [] name = "toimittajan_maakoodi" -> "maakoodi"
      [] OTHER -> name

\* The header of the file, after .str.lower().str.replace(' ', '_').
LoweredHeader ==
    {"toimittajan__nimi", "laskun_summa_ilman_alv", "tapaht.pvm", "tilin_nimi",
     "toimittajan_maakoodi"}

clean_column_names == {ColumnMapping(n) : n \in LoweredHeader}

\* Amount and date texts of the input rows.
T_100_50  == <<"1", "0", "0", ",", "5", "0">>
T_m20_00  == <<"-", "2", "0", ",", "0", "0">>
T_5_00    == <<"5", ",", "0", "0">>
T_1000_00 == <<"1", " ", "0", "0", "0", ",", "0", "0">>
T_bad_amt == <<"1", "2", ",", "x", "0">>
D_jan1    == <<"0", "1", ".", "0", "1", ".", "2", "0", "2", "3">>
D_jan1s   == <<"1", ".", "1", ".", "2", "0", "2", "3">>
D_dec31   == <<"3", "1", ".", "1", "2", ".", "2", "0", "2", "3">>
D_prev    == <<"3", "1", ".", "1", "2", ".", "2", "0", "2", "2">>
D_iso     == <<"2", "0", "2", "3", "-", "0", "6", "-", "1", "5">>

RawRow(d, a, t, s) ==
    [pvm |-> d, laskun_summa |-> a, tili_nimi |-> t, toimittaja_nimi |-> s]

\* The rows an input file is made of: three invoices of 2023, one of them a
\* credit note, one invoice of the year before written with a thousands
\* space, a row whose amount does not parse and a row whose date does not.
RawRows ==
    { RawRow(D_jan1, T_100_50, 1, 1),
      RawRow(D_jan1s, T_m20_00, 2, 1),
      RawRow(D_dec31, T_5_00, 1, 2),
      RawRow(D_prev, T_1000_00, 2, 2),
      RawRow(D_jan1, T_bad_amt, 1, 1),
      RawRow(D_iso, T_5_00, 1, 1) }

SeqsUpTo(S, lo, hi) == UNION {[1..n -> S] : n \in lo..hi}

\* The input files: absent, not UTF-8, or a header and one or more rows.
Files ==
    {[kind |-> "missing", rows |-> <<>>], [kind |-> "bad_encoding", rows |-> <<>>]}
    \cup {[kind |-> "ok", rows |-> r] : r \in SeqsUpTo(RawRows, 1, MaxFileRows)}

\* ---------------------------------------------------------------- load_data

\* The exception the try block of load_data raises on this file, or "None".
LoadException(f) ==
    IF f.kind = "missing" THEN "FileNotFoundError"
    ELSE IF f.kind = "bad_encoding" THEN "UnicodeDecodeError"
    ELSE IF \E i \in 1..Len(f.rows) : ~IsFloat(AmountText(f.rows[i].laskun_summa))
         THEN "ValueError"
    ELSE IF \E i \in 1..Len(f.rows) : ~IsDate(f.rows[i].pvm) THEN "ValueError"
    ELSE "None"

\* The table the try block builds when nothing raises.
ParsedFrame(f) ==
    [columns |-> clean_column_names,
     rows |-> [i \in 1..Len(f.rows) |->
                 [pvm |-> ToDatetime(f.rows[i].pvm),
                  laskun_summa |-> ToFloat(AmountText(f.rows[i].laskun_summa)),
                  tili_nimi |-> f.rows[i].tili_nimi,
                  toimittaja_nimi |-> f.rows[i].toimittaja_nimi]]]

\* What load_data returns: the parsed table, or pd.DataFrame() from the
\* except branch.
load_data(f) == IF LoadException(f) = "None" THEN ParsedFrame(f) ELSE EmptyFrame

\* ----------------------------------------------------------- create_filters

default_start == Date(2023, 1, 1)
default_end == Date(2023, 12, 31)

PvmOf(t) == {t.rows[i].pvm : i \in 1..Len(t.rows)}
AmountsOf(t) == {t.rows[i].laskun_summa : i \in 1..Len(t.rows)}
AccountsOf(t) == {t.rows[i].tili_nimi : i \in 1..Len(t.rows)}
SuppliersOf(t) == {t.rows[i].toimittaja_nimi : i \in 1..Len(t.rows)}

Predicate(d0, d1, accounts, suppliers, lo, hi) ==
    [date_range |-> <<d0, d1>>, selected_accounts |-> accounts,
     selected_suppliers |-> suppliers, min_amount |-> lo, max_amount |-> hi]

\* The exception create_filters ends with on this table, or "None": the
\* column lookups raise KeyError on a table without columns, and the widgets
\* raise StreamlitAPIException when a default value lies outside
\* [min_value, max_value].
FiltersException(t) ==
    IF ~({"pvm", "tili_nimi", "toimittaja_nimi", "laskun_summa"} \subseteq t.columns)
    THEN "KeyError"
    ELSE IF default_start < SetMin(PvmOf(t)) \/ default_end > SetMax(PvmOf(t))
    THEN "StreamlitAPIException"
    ELSE IF 0 < SetMin(AmountsOf(t)) \/ 0 > SetMax(AmountsOf(t))
    THEN "StreamlitAPIException"
    ELSE "None"

\* The predicate create_filters returns when no control was touched: the
\* widgets' default values.
DefaultFilters(t) ==
    Predicate(default_start, default_end, {}, {}, 0, SetMax(AmountsOf(t)))

\* Predicates the user can set with the controls: dates and amounts inside
\* the widgets' [min_value, max_value], names among the options.
UserFilters(t) ==
    LET dates == {SetMin(PvmOf(t)), SetMax(PvmOf(t))}
        lows  == {SetMin(AmountsOf(t)), 0}
        highs == {h \in {SetMin(AmountsOf(t)), 10000, SetMax(AmountsOf(t))} :
                    h <= SetMax(AmountsOf(t))}
        names == { <<{}, {}>>, <<{SetMin(AccountsOf(t))}, {}>>,
                   <<{}, {SetMin(SuppliersOf(t))}>> }
    IN  { Predicate(d0, d1, n[1], n[2], lo, hi) :
            d0 \in dates, d1 \in {d \in dates : d = SetMax(dates)},
            n \in names, lo \in lows, hi \in highs }

\* ------------------------------------------------------------ apply_filters

\* The mask with the upper amount bound exclusive.
MaskExclusiveUpper(t, date_range, selected_accounts, selected_suppliers, min_amount, max_amount) ==
    [i \in 1..Len(t.rows) |->
        /\ t.rows[i].pvm >= date_range[1] /\ t.rows[i].pvm <= date_range[2]
        /\ t.rows[i].laskun_summa >= min_amount /\ t.rows[i].laskun_summa < max_amount
        /\ (selected_accounts # {} => t.rows[i].tili_nimi \in selected_accounts)
        /\ (selected_suppliers # {} => t.rows[i].toimittaja_nimi \in selected_suppliers)]

\* The boolean mask apply_filters builds, one entry per row: the date and
\* amount comparisons, then the isin tests of the non-empty selections.
Mask(t, date_range, selected_accounts, selected_suppliers, min_amount, max_amount) ==
    [i \in 1..Len(t.rows) |->
        /\ t.rows[i].pvm >= date_range[1] /\ t.rows[i].pvm <= date_range[2]
        /\ t.rows[i].laskun_summa >= min_amount /\ t.rows[i].laskun_summa <= max_amount
        /\ (selected_accounts # {} => t.rows[i].tili_nimi \in selected_accounts)
        /\ (selected_suppliers # {} => t.rows[i].toimittaja_nimi \in selected_suppliers)]

RECURSIVE Select(_, _)
\* df[mask]: the rows whose mask entry is true, in their order.
Select(rows, mask) ==
    IF rows = <<>> THEN <<>>
    ELSE (IF Head(mask) THEN <<Head(rows)>> ELSE <<>>) \o Select(Tail(rows), Tail(mask))

\* The exception apply_filters raises, or "None": df['pvm'] on a table
\* without that column.
ApplyException(t) ==
    IF {"pvm", "laskun_summa"} \subseteq t.columns THEN "None" ELSE "KeyError"

apply_filters(t, f) ==
    [columns |-> t.columns,
     rows |-> Select(t.rows, Mask(t, f.date_range, f.selected_accounts,
                                  f.selected_suppliers, f.min_amount, f.max_amount))]

\* ---------------------------------------------------------- display_metrics

NaN == [nan |-> TRUE, num |-> 0, den |-> 1]
Number(n, d) == [nan |-> FALSE, num |-> n, den |-> d]

NoMetrics ==
    [kind |-> "unset", count |-> 0, mean |-> NaN, sum |-> 0, max |-> NaN,
     min |-> NaN, nunique |-> 0]

\* The six figures display_metrics shows.  It has no branch for an empty
\* view: the mean, max and min of an empty column are NaN, its sum is 0.
display_metrics(t) ==
    LET amounts == MapAmount(t.rows)
        n == Len(t.rows)
    IN  [kind |-> "values",
         count |-> n,
         mean |-> IF n = 0 THEN NaN ELSE Number(SumSeq(amounts), n),
         sum |-> SumSeq(amounts),
         max |-> IF n = 0 THEN NaN ELSE Number(SetMax(AmountsOf(t)), 1),
         min |-> IF n = 0 THEN NaN ELSE Number(SetMin(AmountsOf(t)), 1),
         nunique |-> Cardinality(SuppliersOf(t))]

\* ------------------------------------------------------------- the charts

TopN == 10
AccountTopN == 10

RECURSIVE SortedKeys(_)
\* The elements of a set of integers, ascending.
SortedKeys(S) ==
    IF S = {} THEN <<>> ELSE <<SetMin(S)>> \o SortedKeys(S \ {SetMin(S)})

\* The grouping with each key's first amount instead of the sum of its amounts.
GroupByFirst(rows, col) ==
    LET keys == SortedKeys({rows[i][col] : i \in 1..Len(rows)})
        RowsOf(k) == SelectSeq(rows, LAMBDA r : r[col] = k)
    IN  [j \in 1..Len(keys) |-> <<keys[j], Head(RowsOf(keys[j])).laskun_summa>>]

\* df.groupby(col)['laskun_summa'].sum(): one <<key, total>> per key, the keys
\* ascending.
GroupBySum(rows, col) ==
    LET keys == SortedKeys({rows[i][col] : i \in 1..Len(rows)})
        RowsOf(k) == SelectSeq(rows, LAMBDA r : r[col] = k)
    IN  [j \in 1..Len(keys) |-> <<keys[j], SumSeq(MapAmount(RowsOf(keys[j])))>>]

RECURSIVE InsertAsc(_, _)
\* e put into an ascending table after the entries that are not larger.
InsertAsc(s, e) ==
    IF s = <<>> THEN <<e>>
    ELSE IF Head(s)[2] <= e[2] THEN <<Head(s)>> \o InsertAsc(Tail(s), e)
    ELSE <<e>> \o s

RECURSIVE InsertDesc(_, _)
\* e put into a descending table after the entries that are not smaller.
InsertDesc(s, e) ==
    IF s = <<>> THEN <<e>>
    ELSE IF Head(s)[2] >= e[2] THEN <<Head(s)>> \o InsertDesc(Tail(s), e)
    ELSE <<e>> \o s

RECURSIVE SortValues(_, _)
\* Series.sort_values(ascending=...): by total, equal totals in their order.
SortValues(s, ascending) ==
    IF s = <<>> THEN <<>>
    ELSE LET rest == SortValues(SubSeq(s, 1, Len(s) - 1), ascending)
         IN  IF ascending THEN InsertAsc(rest, s[Len(s)])
             ELSE InsertDesc(rest, s[Len(s)])

\* Series.tail(n) and Series.head(n).
TailN(s, n) == IF Len(s) <= n THEN s ELSE SubSeq(s, Len(s) - n + 1, Len(s))
HeadN(s, n) == IF Len(s) <= n THEN s ELSE SubSeq(s, 1, n)

NoChart == [table |-> <<>>, fig |-> FALSE, warnings |-> {}]

\* plot_top_suppliers with head(10) in place of tail(10).
plot_top_suppliers_head(t) ==
    IF t.rows = <<>> THEN [table |-> <<>>, fig |-> FALSE, warnings |-> {"no_data"}]
    ELSE [table |-> HeadN(SortValues(GroupBySum(t.rows, "toimittaja_nimi"), TRUE), TopN),
          fig |-> TRUE, warnings |-> {}]

\* plot_top_suppliers: the table it charts, whether it returns a figure, and
\* the warnings it shows.
plot_top_suppliers(t) ==
    IF t.rows = <<>> THEN [table |-> <<>>, fig |-> FALSE, warnings |-> {"no_data"}]
    ELSE [table |-> TailN(SortValues(GroupBySum(t.rows, "toimittaja_nimi"), TRUE), TopN),
          fig |-> TRUE, warnings |-> {}]

\* plot_account_distribution: the table it charts, whether it returns a
\* figure, and the warnings it shows.
plot_account_distribution(t) ==
    IF t.rows = <<>> THEN [table |-> <<>>, fig |-> FALSE, warnings |-> {"no_data"}]
    ELSE
    LET account_spending ==
            HeadN(SortValues(GroupBySum(t.rows, "tili_nimi"), FALSE), AccountTopN)
        positive == SelectSeq(account_spending, LAMBDA e : e[2] > 0)
    IN  IF \A i \in 1..Len(account_spending) : account_spending[i][2] < 0
        THEN [table |-> account_spending, fig |-> FALSE, warnings |-> {"only_negative"}]
        ELSE IF \E i \in 1..Len(account_spending) : account_spending[i][2] < 0
        THEN IF positive = <<>>
             THEN [table |-> positive, fig |-> FALSE,
                   warnings |-> {"partial_negative", "no_positive"}]
             ELSE [table |-> positive, fig |-> TRUE, warnings |-> {"partial_negative"}]
        ELSE [table |-> account_spending, fig |-> TRUE, warnings |-> {}]

\* ------------------------------------------------------------ the raw data

RowsPerPageOptions == {10, 25, 50, 100}

\* The page count rounded down instead of up.
TotalPagesFloor(total_rows, rows_per_page) == total_rows \div rows_per_page

TotalPages(total_rows, rows_per_page) == (total_rows + rows_per_page - 1) \div rows_per_page

\* The pages the page control offers; page 1 alone when there is no control.
Pages(total_pages) == IF total_pages > 1 THEN 1..total_pages ELSE {1}

StartIdx(page, rows_per_page) == (page - 1) * rows_per_page

EndIdx(page, rows_per_page, total_rows) ==
    IF StartIdx(page, rows_per_page) + rows_per_page <= total_rows
    THEN StartIdx(page, rows_per_page) + rows_per_page
    ELSE total_rows

\* filtered_df.iloc[start_idx:end_idx], positions counted from 0.
Iloc(rows, start_idx, end_idx) ==
    IF start_idx >= end_idx THEN <<>> ELSE SubSeq(rows, start_idx + 1, end_idx)

NoPager ==
    [rows_per_page |-> 0, total_rows |-> 0, total_pages |-> 0, page |-> 0,
     start_idx |-> 0, end_idx |-> 0, shown |-> <<>>]

\* ------------------------------------------------------------------- state

VARIABLES
    file,          \* the input file
    pc,            \* the statement of main that runs next
    df,            \* the table load_data returned
    load_error,    \* the exception load_data caught, or "None"
    st_out,        \* the errors, notes and warnings shown on the page
    exc,           \* the exception that ended the run, or "None"
    ran,           \* the functions main has called
    touched,       \* whether the user changed a filter control
    filters,       \* what create_filters returned
    filtered_df,   \* what apply_filters returned
    metrics,       \* what display_metrics showed
    top_suppliers,     \* plot_top_suppliers' table and figure
    account_spending,  \* plot_account_distribution's table and figure
    pager          \* the raw-data viewer

vars ==
    <<file, pc, df, load_error, st_out, exc, ran, touched, filters, filtered_df,
      metrics, top_suppliers, account_spending, pager>>

NoFilters == Predicate(0, 0, {}, {}, 0, 0)

\* ------------------------------------------------------------------ actions

\* main, line 287: df = load_data().
LoadData ==
    /\ pc = "load"
    /\ df' = load_data(file)
    /\ load_error' = LoadException(file)
    /\ st_out' = IF LoadException(file) = "None" THEN st_out
                 ELSE st_out \cup {"load_error", "load_guidance"}
    /\ ran' = ran \cup {"load_data"}
    /\ pc' = "filters"
    /\ UNCHANGED <<file, exc, touched, filters, filtered_df, metrics, top_suppliers,
                   account_spending, pager>>

\* main, line 290: create_filters(df), with the controls as the user left them.
CreateFilters ==
    /\ pc = "filters"
    /\ ran' = ran \cup {"create_filters"}
    /\ IF FiltersException(df) # "None"
       THEN /\ exc' = FiltersException(df)
            /\ pc' = "crashed"
            /\ UNCHANGED <<touched, filters>>
       ELSE /\ \E t \in BOOLEAN :
                 /\ touched' = t
                 /\ filters' \in (IF t THEN UserFilters(df) ELSE {DefaultFilters(df)})
            /\ pc' = "apply"
            /\ exc' = exc
    /\ UNCHANGED <<file, df, load_error, st_out, filtered_df, metrics, top_suppliers,
                   account_spending, pager>>

\* main, line 291: filtered_df = apply_filters(df, ...).
ApplyFilters ==
    /\ pc = "apply"
    /\ ran' = ran \cup {"apply_filters"}
    /\ IF ApplyException(df) # "None"
       THEN /\ exc' = ApplyException(df)
            /\ pc' = "crashed"
            /\ UNCHANGED filtered_df
       ELSE /\ filtered_df' = apply_filters(df, filters)
            /\ pc' = "metrics"
            /\ exc' = exc
    /\ UNCHANGED <<file, df, load_error, st_out, touched, filters, metrics,
                   top_suppliers, account_spending, pager>>

\* main, line 294: display_metrics(filtered_df).
DisplayMetrics ==
    /\ pc = "metrics"
    /\ ran' = ran \cup {"display_metrics"}
    /\ metrics' = display_metrics(filtered_df)
    /\ pc' = "viz"
    /\ UNCHANGED <<file, df, load_error, st_out, exc, touched, filters, filtered_df,
                   top_suppliers, account_spending, pager>>

\* main, line 297: create_visualizations(filtered_df); of its four charts the
\* supplier and the account chart are modelled.
CreateVisualizations ==
    /\ pc = "viz"
    /\ ran' = ran \cup {"create_visualizations"}
    /\ top_suppliers' = plot_top_suppliers(filtered_df)
    /\ account_spending' = plot_account_distribution(filtered_df)
    /\ st_out' = st_out \cup plot_top_suppliers(filtered_df).warnings
                        \cup plot_account_distribution(filtered_df).warnings
    /\ pc' = "raw"
    /\ UNCHANGED <<file, df, load_error, exc, touched, filters, filtered_df, metrics,
                   pager>>

\* main, lines 336-362: the raw-data box is ticked; the user picks the rows
\* per page and a page.
ShowRawData ==
    /\ pc = "raw"
    /\ \E rows_per_page \in RowsPerPageOptions :
         LET total_rows == Len(filtered_df.rows)
             total_pages == TotalPages(total_rows, rows_per_page)
         IN  \E page \in Pages(total_pages) :
               pager' = [rows_per_page |-> rows_per_page,
                         total_rows |-> total_rows,
                         total_pages |-> total_pages,
                         page |-> page,
                         start_idx |-> StartIdx(page, rows_per_page),
                         end_idx |-> EndIdx(page, rows_per_page, total_rows),
                         shown |-> Iloc(filtered_df.rows, StartIdx(page, rows_per_page),
                                        EndIdx(page, rows_per_page, total_rows))]
    /\ pc' = "done"
    /\ UNCHANGED <<file, df, load_error, st_out, exc, ran, touched, filters,
                   filtered_df, metrics, top_suppliers, account_spending>>

\* main, line 336: the raw-data box is left unticked.
HideRawData ==
    /\ pc = "raw"
    /\ pc' = "done"
    /\ UNCHANGED <<file, df, load_error, st_out, exc, ran, touched, filters,
                   filtered_df, metrics, top_suppliers, account_spending, pager>>

\* ------------------------------------------------- the run of main (Spec)

Init ==
    /\ file \in Files
    /\ pc = "load"
    /\ df = EmptyFrame
    /\ load_error = "None"
    /\ st_out = {}
    /\ exc = "None"
    /\ ran = {}
    /\ touched = FALSE
    /\ filters = NoFilters
    /\ filtered_df = EmptyFrame
    /\ metrics = NoMetrics
    /\ top_suppliers = NoChart
    /\ account_spending = NoChart
    /\ pager = NoPager

Next ==
    \/ LoadData
    \/ CreateFilters
    \/ ApplyFilters
    \/ DisplayMetrics
    \/ CreateVisualizations
    \/ ShowRawData
    \/ HideRawData

Spec == Init /\ [][Next]_vars

\* --------------------------------- apply_filters on its own (SpecFilter)

D1 == Date(2023, 1, 1)
D2 == Date(2023, 6, 15)
D3 == Date(2023, 12, 31)

Row(d, a, t, s) ==
    [pvm |-> d, laskun_summa |-> a, tili_nimi |-> t, toimittaja_nimi |-> s]

\* The rows of the datasets: one invoice, and the rows that differ from it in
\* the date, the amount, the account or the supplier.
FilterRows ==
    {Row(D2, 500, 1, 1)}
    \cup {Row(d, 500, 1, 1) : d \in {D1, D3}}
    \cup {Row(D2, a, 1, 1) : a \in {-2000, 10050}}
    \cup {Row(D2, 500, 2, 1), Row(D2, 500, 1, 2)}

\* The datasets: pd.DataFrame(), and tables of up to MaxDfRows rows.
FilterFrames ==
    {EmptyFrame}
    \cup {[columns |-> Columns, rows |-> r] : r \in SeqsUpTo(FilterRows, 0, MaxDfRows)}

\* The predicates, the inverted amount range among them.
FilterPredicates ==
    { Predicate(d0, d1, a, s, lo, hi) :
        d0 \in {D1, D2}, d1 \in {D2, D3},
        a \in {{}, {1}, {2}}, s \in {{}, {1}, {2}},
        lo \in {-2000, 500, 10050}, hi \in {500, 10050} }

InitFilter ==
    /\ file = [kind |-> "ok", rows |-> <<>>]
    /\ pc = "apply"
    /\ df \in FilterFrames
    /\ load_error = "None"
    /\ st_out = {}
    /\ exc = "None"
    /\ ran = {}
    /\ touched = TRUE
    /\ filters \in FilterPredicates
    /\ filtered_df = EmptyFrame
    /\ metrics = NoMetrics
    /\ top_suppliers = NoChart
    /\ account_spending = NoChart
    /\ pager = NoPager

NextFilter == ApplyFilters

SpecFilter == InitFilter /\ [][NextFilter]_vars

\* ------------------------------------- the charts on their own (SpecAgg)

\* The amount of the invoice of supplier j: suppliers 1 and 2 are billed 1,00,
\* suppliers 3 and 4 are billed 2,00, and so on, so that totals tie in pairs.
Amt(j) == 100 * ((j + 1) \div 2)

\* A filtered view of k suppliers: supplier j has one row, an invoice of
\* Amt(j) (sign 1) or a credit note of it (sign -1), booked on account
\* k + 1 - j; when refund names a supplier, a last row cancels that
\* supplier's row, which leaves its total and its account's total at 0.
View(k, sign, refund) ==
    LET base == [j \in 1..k |-> Row(D2, sign[j] * Amt(j), k + 1 - j, j)]
    IN  [columns |-> Columns,
         rows |-> IF refund = 0 THEN base
                  ELSE base \o <<Row(D3, 0 - sign[refund] * Amt(refund),
                                     k + 1 - refund, refund)>>]

\* InitAgg draws every choice of invoices and credit notes for up to MaxKeys
\* suppliers, without a cancelling row or with one for the first or the last
\* supplier.
InitAgg ==
    /\ file = [kind |-> "ok", rows |-> <<>>]
    /\ pc = "viz"
    /\ df = EmptyFrame
    /\ load_error = "None"
    /\ st_out = {}
    /\ exc = "None"
    /\ ran = {}
    /\ touched = TRUE
    /\ filters = NoFilters
    /\ \E k \in 0..MaxKeys : \E sign \in [1..k -> {-1, 1}] :
         \E refund \in {0} \cup ({1, k} \cap (1..k)) : filtered_df = View(k, sign, refund)
    /\ metrics = NoMetrics
    /\ top_suppliers = NoChart
    /\ account_spending = NoChart
    /\ pager = NoPager

NextAgg == CreateVisualizations

SpecAgg == InitAgg /\ [][NextAgg]_vars

\* ------------------------------------- the raw-data viewer (SpecPage)

InitPage ==
    /\ file = [kind |-> "ok", rows |-> <<>>]
    /\ pc = "raw"
    /\ df = EmptyFrame
    /\ load_error = "None"
    /\ st_out = {}
    /\ exc = "None"
    /\ ran = {}
    /\ touched = TRUE
    /\ filters = NoFilters
    /\ \E n \in 0..MaxTotalRows :
         filtered_df = [columns |-> Columns, rows |-> [i \in 1..n |-> Row(D2, i, 1, 1)]]
    /\ metrics = NoMetrics
    /\ top_suppliers = NoChart
    /\ account_spending = NoChart
    /\ pager = NoPager

NextPage == ShowRawData

SpecPage == InitPage /\ [][NextPage]_vars

\* ------------------------------------------------------------------ claims

\* Whether a row satisfies a predicate: the five conditions of section 4.2.
Satisfies(r, f) ==
    /\ f.date_range[1] <= r.pvm /\ r.pvm <= f.date_range[2]
    /\ f.min_amount <= r.laskun_summa /\ r.laskun_summa <= f.max_amount
    /\ (f.selected_accounts = {} \/ r.tili_nimi \in f.selected_accounts)
    /\ (f.selected_suppliers = {} \/ r.toimittaja_nimi \in f.selected_suppliers)

\* C1: apply_filters returns exactly the input rows that lie in the inclusive
\* date range and the inclusive amount range and whose account and supplier
\* are in the selected sets (an empty set selects all), each once and in the
\* input's order.
C1_FilterExact ==
    pc = "metrics" =>
        LET kept == {i \in 1..Len(df.rows) : Satisfies(df.rows[i], filters)}
        IN  /\ Len(filtered_df.rows) = Cardinality(kept)
            /\ \A i \in kept :
                 filtered_df.rows[Cardinality({j \in kept : j <= i})] = df.rows[i]

\* C1's case: of two rows, one on both upper bounds of the ranges is kept and
\* the other, outside a range, is dropped.
C1_Witness ==
    /\ pc = "metrics"
    /\ Len(df.rows) = 2
    /\ Len(filtered_df.rows) = 1
    /\ filtered_df.rows[1].pvm = filters.date_range[2]
    /\ filtered_df.rows[1].laskun_summa = filters.max_amount
    /\ filters.selected_accounts = {}
    /\ filters.selected_suppliers # {}

\* C2: after a failed load the error and the guidance are shown, main goes no
\* further with a table from load_data, and no filter, metrics, chart or
\* raw-data step runs.
C2_LoadFailureIsFatal ==
    load_error # "None" =>
        /\ {"load_error", "load_guidance"} \subseteq st_out
        /\ pc \notin {"filters", "apply", "metrics", "viz", "raw", "done"}
        /\ ran \subseteq {"load_data"}

\* C3: with no control touched, create_filters returns the full span of the
\* dataset (its first to its last date, its smallest to its largest amount,
\* no account, no supplier), and applying it keeps every loaded row.
C3_DefaultIsFullSpan ==
    ("create_filters" \in ran /\ exc = "None" /\ ~touched) =>
        /\ filters = Predicate(SetMin(PvmOf(df)), SetMax(PvmOf(df)), {}, {},
                               SetMin(AmountsOf(df)), SetMax(AmountsOf(df)))
        /\ ("apply_filters" \in ran => filtered_df = df)

\* C4: apply_filters on a dataset without rows, the table of a failed load
\* included, raises nothing and returns a view without rows.
C4_EmptyDatasetNoError ==
    (df.rows = <<>> /\ "apply_filters" \in ran) =>
        /\ exc = "None"
        /\ pc = "metrics"
        /\ filtered_df.rows = <<>>

\* The scenario of C5: the file holds the rows 100,50, -20,00 and 5,00, the
\* date range holds all three, no account or supplier is selected, the amount
\* range is [0, 100], and the metrics are shown.
C5_Scenario ==
    /\ metrics.kind # "unset"
    /\ Len(file.rows) = 3
    /\ {file.rows[i].laskun_summa : i \in 1..3} = {T_100_50, T_m20_00, T_5_00}
    /\ \A i \in 1..Len(df.rows) :
         filters.date_range[1] <= df.rows[i].pvm /\ df.rows[i].pvm <= filters.date_range[2]
    /\ filters.selected_accounts = {} /\ filters.selected_suppliers = {}
    /\ filters.min_amount = 0 /\ filters.max_amount = 10000

\* C5 as stated: in the scenario only the -20,00 row is dropped, and the
\* metrics are count 2 and sum 105.50.
C5_AsStated ==
    C5_Scenario =>
        /\ metrics.count = 2
        /\ metrics.sum = 10550
        /\ \A i \in 1..Len(df.rows) :
             df.rows[i].laskun_summa # -2000 => Count(filtered_df.rows, df.rows[i]) = 1

\* C5 as amended: in the scenario the -20,00 row and the 100,50 row (above the
\* inclusive upper bound 100) are dropped, only the 5,00 row is kept, and the
\* metrics are count 1 and sum 5.00.
C5_Amended ==
    C5_Scenario =>
        /\ metrics.count = 1
        /\ metrics.sum = 500
        /\ MapAmount(filtered_df.rows) = <<500>>

\* C5's case: the scenario, with the run of main at its end.
C5_Witness == C5_Scenario /\ pc = "done"

\* C9: on a view without rows the metrics end without an error in a
\* distinguished no-data result, not in figures of an empty aggregation.
C9_EmptyViewNoData ==
    (metrics.kind # "unset" /\ filtered_df.rows = <<>>) =>
        /\ exc = "None"
        /\ metrics.kind = "no_data"

RECURSIVE TotalWhere(_, _, _)
\* The sum of the amounts of the rows whose column col holds k.
TotalWhere(rows, col, k) ==
    IF rows = <<>> THEN 0
    ELSE (IF Head(rows)[col] = k THEN Head(rows).laskun_summa ELSE 0)
         + TotalWhere(Tail(rows), col, k)

RECURSIVE SumTotals(_, _, _)
\* The sum of the totals of the keys of the set S.
SumTotals(rows, col, S) ==
    IF S = {} THEN 0
    ELSE LET k == CHOOSE x \in S : TRUE
         IN  TotalWhere(rows, col, k) + SumTotals(rows, col, S \ {k})

\* The suppliers of the top-suppliers table, and the sum of its totals.
TableSuppliers == {top_suppliers.table[i][1] : i \in 1..Len(top_suppliers.table)}
TableSum == SumSeq([i \in 1..Len(top_suppliers.table) |-> top_suppliers.table[i][2]])

\* The top-suppliers table is shown for a view that has rows.
SuppliersCharted == pc = "raw" /\ filtered_df.rows # <<>>

\* The table has at most TopN rows, one per supplier, each with that
\* supplier's total, and no supplier left out has a larger total than one in it.
TableHoldsLargest ==
    LET t == top_suppliers.table
        suppliers == SuppliersOf(filtered_df)
        Total(x) == TotalWhere(filtered_df.rows, "toimittaja_nimi", x)
    IN  /\ Len(t) = (IF Cardinality(suppliers) < TopN THEN Cardinality(suppliers) ELSE TopN)
        /\ \A i \in 1..Len(t) : t[i][1] \in suppliers /\ t[i][2] = Total(t[i][1])
        /\ \A i, j \in 1..Len(t) : i # j => t[i][1] # t[j][1]
        /\ \A x \in suppliers \ TableSuppliers : \A i \in 1..Len(t) : Total(x) <= t[i][2]

\* C6 as stated: the top-suppliers table has at most 10 rows, one per
\* supplier, holds the 10 largest totals, and is ordered descending by total.
C6_AsStated ==
    SuppliersCharted =>
        /\ TableHoldsLargest
        /\ \A i \in 1..(Len(top_suppliers.table) - 1) :
             top_suppliers.table[i][2] >= top_suppliers.table[i + 1][2]

\* C6 as amended: the top-suppliers table has at most 10 rows, one per
\* supplier, holds the 10 largest totals, and is ordered ascending by total
\* (the largest total last).
C6_Amended ==
    SuppliersCharted =>
        /\ TableHoldsLargest
        /\ \A i \in 1..(Len(top_suppliers.table) - 1) :
             top_suppliers.table[i][2] <= top_suppliers.table[i + 1][2]

\* C6's case: more than 10 suppliers, a supplier left out below the table,
\* and totals that differ within the table.
C6_Witness ==
    /\ SuppliersCharted
    /\ Cardinality(SuppliersOf(filtered_df)) > TopN
    /\ top_suppliers.table[1][2] < top_suppliers.table[TopN][2]
    /\ \E x \in SuppliersOf(filtered_df) \ TableSuppliers :
         TotalWhere(filtered_df.rows, "toimittaja_nimi", x) < top_suppliers.table[1][2]

\* The combined total of the suppliers the table leaves out.
LeftOutSum ==
    SumTotals(filtered_df.rows, "toimittaja_nimi", SuppliersOf(filtered_df) \ TableSuppliers)

\* C7 as stated: the totals of the top-suppliers table sum to at most the sum
\* of all amounts of the view, whatever the signs of the amounts.
C7_AsStated ==
    SuppliersCharted => TableSum <= SumSeq(MapAmount(filtered_df.rows))

\* C7 as amended: the totals of the top-suppliers table sum to at most the sum
\* of all amounts of the view exactly when the suppliers left out of the table
\* have a combined total of 0 or more; with at most 10 suppliers the two sums
\* are equal.
C7_Amended ==
    SuppliersCharted =>
        /\ (TableSum <= SumSeq(MapAmount(filtered_df.rows))) <=> (LeftOutSum >= 0)
        /\ Cardinality(SuppliersOf(filtered_df)) <= TopN
             => TableSum = SumSeq(MapAmount(filtered_df.rows))

\* C7's case: more than 10 suppliers, a credit note in the view, the suppliers
\* left out with a positive combined total, and the table's sum below the
\* view's.
C7_Witness ==
    /\ SuppliersCharted
    /\ Cardinality(SuppliersOf(filtered_df)) > TopN
    /\ \E i \in 1..Len(filtered_df.rows) : filtered_df.rows[i].laskun_summa < 0
    /\ LeftOutSum > 0
    /\ TableSum < SumSeq(MapAmount(filtered_df.rows))

\* C8: plot_account_distribution sorts the top-10 account totals by sign: all
\* of them 0 or less, it signals NoPositiveData and draws nothing; else, some
\* of them 0 or less, it signals PartialNegativeDataDropped and charts exactly
\* the accounts with a total above 0; else it charts all without a signal.
C8_SignClasses ==
    (pc = "raw" /\ filtered_df.rows # <<>>) =>
        LET top == HeadN(SortValues(GroupBySum(filtered_df.rows, "tili_nimi"), FALSE),
                         AccountTopN)
            a == account_spending
        IN  IF \A i \in 1..Len(top) : top[i][2] <= 0
            THEN a.warnings \cap {"only_negative", "no_positive"} # {} /\ ~a.fig
            ELSE IF \E i \in 1..Len(top) : top[i][2] <= 0
            THEN /\ "partial_negative" \in a.warnings
                 /\ a.fig
                 /\ a.table = SelectSeq(top, LAMBDA e : e[2] > 0)
            ELSE a.fig /\ a.table = top /\ a.warnings = {}

\* The positions, counted from 0, of the slice of a page.
Slice(page, rows_per_page, total_rows) ==
    StartIdx(page, rows_per_page)..(EndIdx(page, rows_per_page, total_rows) - 1)

\* C10: in the raw-data viewer the slice of the chosen page lies inside the
\* view and is no longer than a page, and the slices of pages 1..total_pages
\* are disjoint, cover every row of the view, and are full but for the last.
C10_Pagination ==
    pc = "done" /\ pager.rows_per_page # 0 =>
        LET n == pager.total_rows
            rpp == pager.rows_per_page
            pages == 1..pager.total_pages
        IN  /\ n = Len(filtered_df.rows)
            /\ pager.page \in Pages(pager.total_pages)
            /\ 0 <= pager.start_idx /\ pager.start_idx <= pager.end_idx
            /\ pager.end_idx <= n
            /\ pager.end_idx - pager.start_idx <= rpp
            /\ pager.shown = [i \in 1..(pager.end_idx - pager.start_idx) |->
                                filtered_df.rows[pager.start_idx + i]]
            /\ \A p, q \in pages : p # q => Slice(p, rpp, n) \cap Slice(q, rpp, n) = {}
            /\ UNION {Slice(p, rpp, n) : p \in pages} = 0..(n - 1)
            /\ \A p \in pages : p # pager.total_pages
                                  => Cardinality(Slice(p, rpp, n)) = rpp

\* C10's case: three or more pages, the last one chosen and shorter than a
\* page.
C10_Witness ==
    /\ pc = "done"
    /\ pager.total_pages >= 3
    /\ pager.page = pager.total_pages
    /\ pager.end_idx - pager.start_idx < pager.rows_per_page
    /\ pager.end_idx = pager.total_rows

====
